---- MODULE Spec2Model ----
(***************************************************************************)
(* State-machine model of IdoxSpider                                       *)
(* (src/planning_applications/spiders/idox.py).                            *)
(*                                                                         *)
(* The spider walks paginated listing pages (parse_results), dispatches    *)
(* two detail requests per listing row (_parse_single_result) and the two  *)
(* detail handlers (parse_details_summary_tab,                             *)
(* parse_details_further_information_tab) store their structure in the     *)
(* request's meta and either call create_planning_application_item or      *)
(* issue one more request.  The fetch engine is the environment: it        *)
(* delivers a response to the request's callback, or a failure to its      *)
(* errback.  A request owns a copy of the meta dict it was built with, so  *)
(* a request record carries its meta by value.                             *)
(***************************************************************************)
EXTENDS Integers, Sequences, FiniteSets, TLC

\* ---------------------------------------------------------------- bounds
MaxLimit == 2      \* largest configured scrape limit explored
MaxPages == 2      \* length of the longest chain of listing pages
MaxRows  == 3      \* most rows on one listing page
MaxFeatures == 2   \* most features in one geometry response

\* ------------------------------------------------------------ vocabulary
NoResultsText == "No results found"
TooManyText   == "Too many results found"

\* Text of the first .messagebox of a listing page ("" = no message box).
BannerTexts == {"", NoResultsText, TooManyText}

\* A banner test that never matches.
ContainsNothing(text, needle) == FALSE

\* `needle in message_box[0].extract()` for the banner texts above.
Contains(text, needle) == text = needle

\* A row's detail link, by what follows "keyVal=" in it: the link has no
\* keyVal= at all, has it with nothing before the next "&", or has a key.
Links ==
    {[hasKeyVal |-> FALSE, keyVal |-> ""],
     [hasKeyVal |-> TRUE, keyVal |-> ""],
     [hasKeyVal |-> TRUE, keyVal |-> "K1"]}

RECURSIVE SeqsUpTo(_, _)
SeqsUpTo(S, n) ==
    IF n = 0 THEN {<<>>}
    ELSE LET shorter == SeqsUpTo(S, n - 1)
         IN  shorter \cup {Append(s, x) : s \in {t \in shorter : Len(t) = n - 1}, x \in S}

\* The listing pages the site may answer with.
AllPages ==
    [banner : BannerTexts, tools : BOOLEAN, container : BOOLEAN,
     rows : SeqsUpTo(Links, MaxRows), next : BOOLEAN]

\* A page with a terminal banner or with #applicationTools may carry
\* anything else besides (at most one row is enough to tell).  A page
\* without #searchresults has no rows, and without a banner or
\* #applicationTools it has no next link either.
Pages ==
    {p \in AllPages :
        /\ ~p.container => p.rows = <<>>
        /\ \/ (p.banner \in {NoResultsText, TooManyText} \/ p.tools) /\ Len(p.rows) <= 1
           \/ /\ p.banner \notin {NoResultsText, TooManyText}
              /\ ~p.tools
              /\ ~p.container => ~p.next}

\* The two detail tabs of an application.
SummaryUrl == "activeTab=summary"
DetailsUrl == "activeTab=details"

SummaryCallback == "parse_details_summary_tab"
FurtherCallback == "parse_details_further_information_tab"

\* The tab whose page a handler is written for.
TabOf(callback) == IF callback = SummaryCallback THEN SummaryUrl ELSE DetailsUrl

SimpleDetailsTable == "#simpleDetailsTable"
ApplicationDetails == "#applicationDetails"

\* An attribute of a structure that was never assigned.
Absent == [kind |-> "absent", year |-> 0, month |-> 0, day |-> 0, text |-> ""]

\* A structure parsed from a page, by where its values were read: which
\* application's page, at which tab URL, from which table; a summary
\* structure also holds the two dates parsed from its table.  NoStructure
\* stands for a key that is absent from the meta dict.
NoStructure ==
    [app |-> 0, url |-> "", table |-> "",
     application_received |-> Absent, application_validated |-> Absent]
\* Every parsed structure taken for the first application's.
StructureOfFirst(a, u, t) ==
    [app |-> 1, url |-> u, table |-> t,
     application_received |-> Absent, application_validated |-> Absent]
\* A structure as constructed, before any date is assigned.
Structure(a, u, t) ==
    [app |-> a, url |-> u, table |-> t,
     application_received |-> Absent, application_validated |-> Absent]

EmptyMeta == [details_summary |-> NoStructure, details_further_information |-> NoStructure]

\* ------------------------------------------------------- search criteria
\* Python's None, and a str by its text.
None == [isNone |-> TRUE, text |-> ""]
Str(t) == [isNone |-> FALSE, text |-> t]

\* class applicationStatus(Enum): the value of each member.
applicationStatus ==
    [ALL |-> "", APPEAL_DECIDED |-> "Appeal decided", APPEAL_LODGED |-> "Appeal lodged",
     AWAITING_DECISION |-> "Awaiting decision", DECIDED |-> "Decided",
     REGISTERED |-> "Registered", UNKNOWN |-> "Unknown", WITHDRAWN |-> "Withdrawn"]

\* A member of the enumeration, and a str given where a member is expected.
Member(name) == [kind |-> "enum", v |-> name]
StatusText(t) == [kind |-> "str", v |-> t]

\* A datetime.date, and a str given where a date is expected.
Date(y, m, d) == [kind |-> "date", year |-> y, month |-> m, day |-> d, text |-> ""]
DateText(t) == [kind |-> "str", year |-> 0, month |-> 0, day |-> 0, text |-> t]

\* The calendar dates explored; the first is the class default of
\* start_date, the last stands for the day the module was imported.
Dates == {Date(2024, 11, 1), Date(2024, 12, 25), Date(2025, 1, 9)}
DEFAULT_END_DATE == Date(2025, 1, 9)

\* planning_applications.settings.DEFAULT_DATE_FORMAT
DEFAULT_DATE_FORMAT == "%Y-%m-%d"

Pad2(n) == IF n < 10 THEN "0" \o ToString(n) ELSE ToString(n)

\* date.strftime for the two formats the spider uses.
Strftime(d, fmt) ==
    IF fmt = "%d/%m/%Y"
    THEN Pad2(d.day) \o "/" \o Pad2(d.month) \o "/" \o ToString(d.year)
    ELSE ToString(d.year) \o "-" \o Pad2(d.month) \o "-" \o Pad2(d.day)

\* datetime.strptime(text, fmt).date(): the date whose rendering in fmt is
\* text, ValueError when there is none.
Strptime(text, fmt) ==
    IF \E d \in Dates : Strftime(d, fmt) = text
    THEN [raised |-> FALSE, value |-> CHOOSE d \in Dates : Strftime(d, fmt) = text]
    ELSE [raised |-> TRUE, value |-> DateText(text)]

\* applicationStatus(text): the member with that value, ValueError when
\* there is none.
StatusByValue(text) ==
    IF \E n \in DOMAIN applicationStatus : applicationStatus[n] = text
    THEN [raised |-> FALSE,
          value |-> Member(CHOOSE n \in DOMAIN applicationStatus : applicationStatus[n] = text)]
    ELSE [raised |-> TRUE, value |-> StatusText(text)]

\* ---------------------------------------------- dates of the detail pages
\* A datetime.datetime at midnight.
DateTime(y, m, d) == [kind |-> "datetime", year |-> y, month |-> m, day |-> d, text |-> ""]

\* A text node of a table cell: whether white space surrounds it, and its
\* words (the maximal runs of characters that are not white space).
CellText(padded, words) == [isNone |-> FALSE, padded |-> padded, words |-> words]
\* xpath(...).get() found no text node: no header cell contains the label,
\* or the value cell has no text.
NoText == [isNone |-> TRUE, padded |-> FALSE, words |-> <<>>]

\* str.strip()
Strip(text) == [text EXCEPT !.padded = FALSE]
\* bool(str): the empty string is false.
Truthy(text) == ~text.isNone /\ (text.padded \/ text.words # <<>>)

WeekdayNames == {"Mon", "Tue", "Wed", "Thu", "Fri", "Sat", "Sun"}
MonthNumbers == ("Jan" :> 1) @@ ("Nov" :> 11) @@ ("Dec" :> 12)
DayNumbers == ("01" :> 1) @@ ("1" :> 1) @@ ("25" :> 25) @@ ("31" :> 31) @@ ("32" :> 32)
YearNumbers == ("2024" :> 2024) @@ ("2025" :> 2025)
DaysIn(month) == IF month = 11 THEN 30 ELSE 31

\* datetime.strptime(text, "%a %d %b %Y"): a weekday name, a day of the
\* month, a month name and a year, separated by white space and nothing
\* around them; the weekday is not checked against the date.  ValueError
\* on any other text.
StrptimeDetail(text) ==
    LET w == text.words
    IN  IF /\ ~text.padded
           /\ Len(w) = 4
           /\ w[1] \in WeekdayNames
           /\ w[2] \in DOMAIN DayNumbers
           /\ w[3] \in DOMAIN MonthNumbers
           /\ w[4] \in DOMAIN YearNumbers
           /\ DayNumbers[w[2]] <= DaysIn(MonthNumbers[w[3]])
        THEN [raised |-> FALSE,
              value |-> DateTime(YearNumbers[w[4]], MonthNumbers[w[3]], DayNumbers[w[2]])]
        ELSE [raised |-> TRUE, value |-> Absent]

\* What the value cell of a date row of #simpleDetailsTable may hold.
DateCells ==
    {NoText,
     CellText(TRUE, <<>>),
     CellText(FALSE, <<"Mon", "01", "Jan", "2024">>),
     CellText(TRUE, <<"Wed", "25", "Dec", "2024">>),
     CellText(FALSE, <<"01/01/2024">>),
     CellText(FALSE, <<"Mon", "32", "Jan", "2024">>)}

\* The date cells of a site that fills both rows in.
FilledDateCells ==
    [application_received |-> CellText(FALSE, <<"Mon", "01", "Jan", "2024">>),
     application_validated |-> CellText(TRUE, <<"Wed", "25", "Dec", "2024">>)]

\* A range check that accepts every pair of dates.
AnyRange(a, b) == FALSE

\* a > b on datetime.date
DateAfter(a, b) ==
    \/ a.year > b.year
    \/ a.year = b.year /\ a.month > b.month
    \/ a.year = b.year /\ a.month = b.month /\ a.day > b.day

\* What the spider may be constructed with: dates as date objects or as
\* text (one of them not in DEFAULT_DATE_FORMAT), a status as a member or
\* as text (one of them no member's value).
DateArguments ==
    Dates \cup {DateText(Strftime(d, DEFAULT_DATE_FORMAT)) : d \in Dates}
          \cup {DateText("01/11/2024")}
StatusArguments ==
    {Member(n) : n \in DOMAIN applicationStatus}
        \cup {StatusText("Decided"), StatusText(""), StatusText("Granted")}

\* response.css("input[name='_csrf']::attr(value)").get() on the form page.
Tokens == {None, Str("csrf-1"), Str("csrf-2")}

\* No search request is outstanding.
NoFormData == [k \in {} |-> None]

VARIABLES
    limit,                      \* self.limit
    should_scrape_application,  \* self.should_scrape_application
    applications_scraped,       \* self.applications_scraped
    start_date,                 \* self.start_date
    end_date,                   \* self.end_date
    filter_status,              \* self.filter_status
    site,                       \* what the site's two detail tabs contain
    dateCells,                  \* the two date cells of the site's #simpleDetailsTable
    listing,                    \* "new" before __init__, "config_error" when it raised,
                                \* "constructed" after it; then the outstanding non-detail
                                \* request: "start", "results" or "none"
    searchForm,                 \* _csrf input of the form page submit_form was given
    formdata,                   \* formdata of the outstanding search request
    arcgis,                     \* the geometry request and what its handler did
    pagesRequested,             \* listing pages requested so far
    walker,                     \* where the last parse_results run ended
    lastBanner,                 \* banner of the listing page handled last
    validReached,               \* valid-key rows the row loop has reached
    pagesHandled,               \* listing-page requests answered (response or failure)
    lastRun,                    \* what the last parse_results run read of its page and did
    errorLog,                   \* number of self.logger.error calls, by call site
    apps,                       \* applications handed to the detail aggregator
    inflight,                   \* outstanding detail requests
    emitted,                    \* per application: what the handlers yielded to the sink
    failed,                     \* per application: errback runs
    first,                      \* per application: callback of the initial fetch handled first
    issued,                     \* per application: detail requests handed to the engine
    abandoned                   \* per application: handlers the fetch of whose tab failed

vars == <<limit, should_scrape_application, applications_scraped,
          start_date, end_date, filter_status, site, dateCells, listing, searchForm,
          formdata, arcgis,
          pagesRequested, walker, lastBanner, validReached, pagesHandled, lastRun,
          errorLog, apps, inflight, emitted, failed, first, issued, abandoned>>

walkerVars == <<applications_scraped, listing, searchForm, formdata, pagesRequested, walker,
                lastBanner, validReached, pagesHandled, lastRun>>
criteriaVars == <<start_date, end_date, filter_status>>
configVars == <<limit, should_scrape_application, criteriaVars, site, dateCells>>


\* ------------------------------------------------------ the site's pages
\* What a detail tab's page contains: the tab's own table ("own": the
\* summary tab #simpleDetailsTable, the details tab #applicationDetails),
\* both tables, or no table.  A page with only the other tab's table is
\* handled like one with none: the handler of the page's own table runs
\* first and raises.
PageKinds == {"own", "both", "none"}
Sites == [summaryTab : PageKinds, detailsTab : PageKinds]

\* len(response.css("#simpleDetailsTable")) > 0 on the page at url u
HasSimpleDetailsTable(u) ==
    IF u = SummaryUrl THEN site.summaryTab \in {"own", "both"} ELSE site.detailsTab = "both"
\* len(response.css("#applicationDetails")) > 0 on the page at url u
HasApplicationDetails(u) ==
    IF u = SummaryUrl THEN site.summaryTab = "both" ELSE site.detailsTab \in {"own", "both"}

\* --------------------------------------------------------- initial state
\* Counter and switches owned by BaseSpider.
BaseSpiderInit ==
    /\ limit \in 1..MaxLimit
    /\ should_scrape_application \in BOOLEAN
    /\ applications_scraped = 0

ErrorSites == {"too_many", "keyval", "handle_error"}

\* What a parse_results run read of its page (whether #applicationTools was
\* found, how many .searchresult rows the list held, whether .next had an
\* href) and what its row loop did: how many rows it handed to
\* _parse_single_result without an exception, and the document positions
\* of the rows it dispatched, in the order of the dispatches.
RunRecord(tools, rows, next_page, processed, dispatched) ==
    [tools |-> tools, rows |-> rows, next |-> next_page,
     processed |-> processed, dispatched |-> dispatched]

\* A run that returned at the banner, or before any run.
NoRun == RunRecord(FALSE, 0, FALSE, 0, <<>>)

\* No geometry request has been made.
NoGeometry == [phase |-> "none"]

\* Nothing has been requested or handled yet.
NothingDone ==
    /\ searchForm = None
    /\ formdata = NoFormData
    /\ arcgis = NoGeometry
    /\ pagesRequested = 0
    /\ walker = "AwaitingResults"
    /\ lastBanner = ""
    /\ validReached = 0
    /\ pagesHandled = 0
    /\ lastRun = NoRun
    /\ errorLog = [c \in ErrorSites |-> 0]
    /\ apps = <<>>
    /\ inflight = {}
    /\ emitted = <<>>
    /\ failed = <<>>
    /\ first = <<>>
    /\ issued = <<>>
    /\ abandoned = <<>>

\* State after construction with the class defaults and start_requests: the
\* request for start_url (callback submit_form) is outstanding.
Init ==
    /\ BaseSpiderInit
    /\ start_date = Strptime("2024-11-01", DEFAULT_DATE_FORMAT).value
    /\ end_date = DEFAULT_END_DATE
    /\ filter_status = Member("ALL")
    /\ site \in Sites
    /\ dateCells = FilledDateCells
    /\ listing = "start"
    /\ NothingDone

\* ----------------------------------------------- construction and search
\* __init__: the arguments given as text are converted, one after the
\* other, and the date range is checked; any of the four steps may raise
\* ValueError, leaving the attributes as converted so far.
Construct ==
    /\ listing = "new"
    /\ LET s == IF start_date.kind = "str"
                THEN Strptime(start_date.text, DEFAULT_DATE_FORMAT)
                ELSE [raised |-> FALSE, value |-> start_date]
           e == IF end_date.kind = "str"
                THEN Strptime(end_date.text, DEFAULT_DATE_FORMAT)
                ELSE [raised |-> FALSE, value |-> end_date]
           f == IF filter_status.kind = "str"
                THEN StatusByValue(filter_status.v)
                ELSE [raised |-> FALSE, value |-> filter_status]
       IN  /\ start_date' = IF s.raised THEN start_date ELSE s.value
           /\ end_date' = IF s.raised \/ e.raised THEN end_date ELSE e.value
           /\ filter_status' = IF s.raised \/ e.raised \/ f.raised
                                THEN filter_status ELSE f.value
           /\ listing' = IF s.raised \/ e.raised \/ f.raised THEN "config_error"
                          ELSE IF DateAfter(s.value, e.value) THEN "config_error"
                          ELSE "constructed"
    /\ UNCHANGED <<limit, should_scrape_application, site, dateCells, applications_scraped,
                   searchForm, formdata, arcgis, pagesRequested, walker, lastBanner,
                   validReached, pagesHandled, lastRun, errorLog, apps, inflight,
                   emitted, failed, first, issued, abandoned>>

\* start_requests: the request for start_url is handed to the engine.
StartRequests ==
    /\ listing = "constructed"
    /\ listing' = "start"
    /\ UNCHANGED <<configVars, applications_scraped, searchForm, formdata, arcgis,
                   pagesRequested, walker, lastBanner, validReached, pagesHandled, lastRun,
                   errorLog, apps, inflight, emitted, failed, first, issued, abandoned>>

formatted_start_date == Strftime(start_date, "%d/%m/%Y")
formatted_end_date == Strftime(end_date, "%d/%m/%Y")

\* A form that always carries the status field.
StatusFieldAlwaysSent(status) == TRUE

\* `self.filter_status != applicationStatus.ALL`
StatusFieldSent(status) == status # Member("ALL")

\* The formdata dict submit_form hands to FormRequest.from_response.
FormData(token) ==
    LET base == ("_csrf" :> token)
                @@ ("caseAddressType" :> Str("Application"))
                @@ ("date(applicationValidatedStart)" :> Str(formatted_start_date))
                @@ ("date(applicationValidatedEnd)" :> Str(formatted_end_date))
                @@ ("searchType" :> Str("Application"))
    IN  IF StatusFieldSent(filter_status)
        THEN base @@ ("caseStatus" :> Str(applicationStatus[filter_status.v]))
        ELSE base

\* ------------------------------------------------------- detail handlers
HandlerResult(r, reqs, outs) == [raised |-> r, requests |-> reqs, outputs |-> outs]

Request(a, u, cb, meta) == [app |-> a, url |-> u, callback |-> cb, meta |-> meta]

\* The PlanningApplicationItem built in create_planning_application_item:
\* reference .. appeal_decision are read from details_summary,
\* application_type .. environmental_assessment_requested from
\* details_further_information.
PlanningApplicationItemSwapped(details_summary, details_further_information) ==
    [summary_fields |-> details_further_information,
     further_information_fields |-> details_summary]

PlanningApplicationItem(details_summary, details_further_information) ==
    [summary_fields |-> details_summary,
     further_information_fields |-> details_further_information]

\* create_planning_application_item(meta[, response]) as the handlers call
\* it.  Without the response argument the call raises TypeError.  With it
\* the call returns a generator object, which is what the handler yields;
\* the body that builds the item has not run, so the output is recorded as
\* a generator together with the item its body would build.
create_planning_application_item_optional_response(meta, withResponse) ==
    HandlerResult(FALSE, {},
                  <<[kind |-> "generator",
                     item |-> PlanningApplicationItem(meta.details_summary,
                                                      meta.details_further_information)]>>)

create_planning_application_item(meta, withResponse) ==
    IF ~withResponse
    THEN HandlerResult(TRUE, {}, <<>>)
    ELSE HandlerResult(FALSE, {},
                       <<[kind |-> "generator",
                          item |-> PlanningApplicationItem(meta.details_summary,
                                                           meta.details_further_information)]>>)

\* _get_horizontal_table_value on the row whose value cell holds `cell`:
\* the stripped text, None when there is no text.
_get_horizontal_table_value(cell) == IF Truthy(cell) THEN Strip(cell) ELSE NoText

\* `if application_received: ... = datetime.strptime(application_received,
\* "%a %d %b %Y")`: the attribute is assigned only for a non-empty value.
ParsedDate(cell) ==
    LET value == _get_horizontal_table_value(cell)
    IN  IF Truthy(value) THEN StrptimeDetail(value)
        ELSE [raised |-> FALSE, value |-> Absent]

\* A summary handler that requests its page again for itself, whatever the
\* page and the context hold.
parse_details_summary_tab_again(a, u, meta) ==
    HandlerResult(FALSE, {Request(a, u, SummaryCallback, meta)}, <<>>)

\* parse_details_summary_tab on the response for url u with meta `meta`.
parse_details_summary_tab(a, u, meta) ==
    IF ~HasSimpleDetailsTable(u)
    THEN HandlerResult(TRUE, {}, <<>>)                    \* [0] on an empty list
    ELSE LET application_received == ParsedDate(dateCells.application_received)
             application_validated == ParsedDate(dateCells.application_validated)
         IN  IF application_received.raised \/ application_validated.raised
             THEN HandlerResult(TRUE, {}, <<>>)           \* ValueError from strptime
             ELSE LET details_summary ==
                          [Structure(a, u, SimpleDetailsTable) EXCEPT
                               !.application_received = application_received.value,
                               !.application_validated = application_validated.value]
                      m == [meta EXCEPT !.details_summary = details_summary]
                  IN  IF m.details_further_information # NoStructure
                      THEN create_planning_application_item(m, FALSE)
                      ELSE HandlerResult(FALSE, {Request(a, u, FurtherCallback, m)}, <<>>)

\* parse_details_further_information_tab without the `"details_summary" in
\* meta` test: the handler merges whatever the meta holds.
parse_details_further_information_tab_unguarded(a, u, meta) ==
    IF ~HasApplicationDetails(u)
    THEN HandlerResult(TRUE, {}, <<>>)
    ELSE create_planning_application_item(
             [meta EXCEPT !.details_further_information = Structure(a, u, ApplicationDetails)],
             TRUE)

\* parse_details_further_information_tab on the response for url u.
parse_details_further_information_tab(a, u, meta) ==
    IF ~HasApplicationDetails(u)
    THEN HandlerResult(TRUE, {}, <<>>)                    \* [0] on an empty list
    ELSE LET m == [meta EXCEPT !.details_further_information = Structure(a, u, ApplicationDetails)]
         IN  IF m.details_summary # NoStructure
             THEN create_planning_application_item(m, TRUE)
             ELSE HandlerResult(FALSE, {Request(a, u, SummaryCallback, m)}, <<>>)

IsInitial(r) == r.meta = EmptyMeta

\* Bookkeeping shared by the two callbacks: take the request out of flight,
\* hand the handler's requests to the engine and its outputs to the sink.
Deliver(r, res) ==
    /\ inflight' = (inflight \ {r}) \cup res.requests
    /\ emitted' = [emitted EXCEPT ![r.app] = @ \o res.outputs]
    /\ first' = [first EXCEPT ![r.app] = IF @ = "" /\ IsInitial(r) THEN r.callback ELSE @]
    /\ issued' = [issued EXCEPT ![r.app] = @ + Cardinality(res.requests)]
    /\ UNCHANGED <<walkerVars, configVars, arcgis, errorLog, apps, failed, abandoned>>

\* The engine delivers the response of a request whose callback is
\* parse_details_summary_tab.
ParseDetailsSummaryTab(r) ==
    /\ r \in inflight
    /\ r.callback = SummaryCallback
    /\ Deliver(r, parse_details_summary_tab(r.app, r.url, r.meta))

\* The engine delivers the response of a request whose callback is
\* parse_details_further_information_tab.
ParseDetailsFurtherInformationTab(r) ==
    /\ r \in inflight
    /\ r.callback = FurtherCallback
    /\ Deliver(r, parse_details_further_information_tab(r.app, r.url, r.meta))

\* The fetch of a detail request fails: the engine calls its errback.
HandleError(r) ==
    /\ r \in inflight
    /\ inflight' = inflight \ {r}
    /\ errorLog' = [errorLog EXCEPT !["handle_error"] = @ + 2]
    /\ failed' = [failed EXCEPT ![r.app] = @ + 1]
    /\ abandoned' = [abandoned EXCEPT ![r.app] =
                         IF r.url = TabOf(r.callback) THEN @ \cup {r.callback} ELSE @]
    /\ UNCHANGED <<walkerVars, configVars, arcgis, apps, emitted, first, issued>>


\* ------------------------------------------------------------ the walker
\* submit_form: the search form arrives and the search is posted; the
\* results request (callback parse_results) is now outstanding.
SubmitForm(token) ==
    /\ listing = "start"
    /\ listing' = "results"
    /\ searchForm' = token
    /\ formdata' = FormData(token)
    /\ pagesRequested' = 1
    /\ UNCHANGED <<configVars, arcgis, applications_scraped, walker, lastBanner, validReached,
                   pagesHandled, lastRun, errorLog, apps, inflight, emitted, failed, first, issued, abandoned>>

\* The limit test written with > instead of >=.
LimitReachedOffByOne(scraped, lim) == scraped > lim

\* `self.applications_scraped >= self.limit`
LimitReached(scraped, lim) == scraped >= lim

\* details_summary_url.split("keyVal=")[1] raises IndexError when the link
\* has no keyVal= in it.
SplitRaises(link) == ~link.hasKeyVal
\* ....split("keyVal=")[1].split("&")[0] or ""
Keyval(link) == link.keyVal

\* A counter that counts every dispatched row twice.
IncrementedTwice(n) == n + 2

\* `self.applications_scraped += 1`
Incremented(n) == n + 1

\* State of the row loop of one parse_results run.
LoopState(scraped, valid, errors, new, outcome) ==
    [scraped |-> scraped, valid |-> valid, errors |-> errors,
     new |-> new, outcome |-> outcome, processed |-> 0, dispatched |-> <<>>]

\* _parse_single_result for one row of listing page number `page`; a
\* dispatched application is recorded with the entries of its meta dict.
ParseSingleResult(link, page, st) ==
    IF SplitRaises(link)
    THEN [st EXCEPT !.outcome = "Raised"]
    ELSE IF Keyval(link) = ""
    THEN [st EXCEPT !.errors = @ + 1]
    ELSE IF should_scrape_application
    THEN [st EXCEPT !.scraped = Incremented(@),
                    !.new = Append(@, [keyval |-> Keyval(link), original_response |-> page,
                                       limit |-> limit,
                                       applications_scraped |-> Incremented(st.scraped)])]
    ELSE st

\* A row loop that takes the row after next.
EveryOtherRow(i) == i + 2

\* `for result in search_results`: the rows are taken in list order.
FollowingRow(i) == i + 1

\* The `for result in search_results` loop from row i on.
RECURSIVE RowLoop(_, _, _, _)
RowLoop(rows, page, i, st) ==
    IF i > Len(rows)
    THEN [st EXCEPT !.outcome = "Completed"]
    ELSE LET isValid == ~SplitRaises(rows[i]) /\ Keyval(rows[i]) # ""
             seen == [st EXCEPT !.valid = @ + (IF isValid THEN 1 ELSE 0)]
         IN  IF LimitReached(st.scraped, limit)
             THEN [seen EXCEPT !.outcome = "LimitReached"]
             ELSE LET after == ParseSingleResult(rows[i], page, seen)
                      noted == [after EXCEPT
                                   !.processed = @ + 1,
                                   !.dispatched = IF Len(after.new) > Len(seen.new)
                                                  THEN Append(@, i) ELSE @]
                  IN  IF after.outcome = "Raised" THEN after
                      ELSE RowLoop(rows, page, FollowingRow(i), noted)

\* The two requests _parse_single_result yields for application number a.
InitialRequests(a) ==
    {Request(a, SummaryUrl, SummaryCallback, EmptyMeta),
     Request(a, DetailsUrl, FurtherCallback, EmptyMeta)}

AppIds(from, n) == (from + 1)..(from + n)

\* Add n applications to the per-application bookkeeping.
Extended(f, n, v) == f \o [i \in 1..n |-> v]

\* parse_results ends without touching the counter or the engine.
WalkerStops(state, banner) ==
    /\ listing' = "none"
    /\ walker' = state
    /\ lastBanner' = banner
    /\ pagesHandled' = pagesHandled + 1
    /\ lastRun' = NoRun
    /\ searchForm' = None
    /\ formdata' = NoFormData
    /\ UNCHANGED <<configVars, arcgis, applications_scraped, pagesRequested, validReached,
                   apps, inflight, emitted, failed, first, issued, abandoned>>

\* parse_results on a page carrying #applicationTools: the page is handed
\* to parse_details_summary_tab with the listing request's own meta.
SingleApplication(page) ==
    LET a   == Len(apps) + 1
        res == parse_details_summary_tab(a, SummaryUrl, EmptyMeta)
    IN  /\ listing' = "none"
        /\ walker' = "SingleApplication"
        /\ lastBanner' = page.banner
        /\ apps' = Append(apps, [keyval |-> "", original_response |-> 0,
                                 limit |-> 0, applications_scraped |-> 0])
        /\ inflight' = inflight \cup res.requests
        /\ emitted' = Append(emitted, res.outputs)
        /\ failed' = Append(failed, 0)
        /\ first' = Append(first, SummaryCallback)
        /\ issued' = Append(issued, Cardinality(res.requests))
        /\ abandoned' = Append(abandoned, {})
        /\ pagesHandled' = pagesHandled + 1
        /\ lastRun' = RunRecord(TRUE, Len(page.rows), page.next, 0, <<>>)
        /\ searchForm' = None
        /\ formdata' = NoFormData
        /\ UNCHANGED <<configVars, arcgis, applications_scraped, pagesRequested, validReached,
                       errorLog>>

\* The row loop leaving with break where the code has return: the next-page
\* link is read after a loop that stopped at the limit as well.
FollowsNextAfterBreak(outcome, next_page) == outcome # "Raised" /\ next_page

\* The next-page request is yielded only when control falls out of the row
\* loop (the limit branch returns from parse_results) and .next has an href.
FollowsNext(outcome, next_page) == outcome = "Completed" /\ next_page

\* parse_results on a page with a #searchresults container: the row loop,
\* then the next-page link.
WalkRows(page) ==
    LET st == RowLoop(page.rows, pagesRequested, 1,
                      LoopState(applications_scraped, 0, 0, <<>>, "Running"))
        n  == Len(st.new)
        follow == FollowsNext(st.outcome, page.next)
    IN  /\ applications_scraped' = st.scraped
        /\ validReached' = validReached + st.valid
        /\ errorLog' = [errorLog EXCEPT !["keyval"] = @ + st.errors]
        /\ apps' = apps \o st.new
        /\ inflight' = inflight \cup UNION {InitialRequests(a) : a \in AppIds(Len(apps), n)}
        /\ emitted' = Extended(emitted, n, <<>>)
        /\ failed' = Extended(failed, n, 0)
        /\ first' = Extended(first, n, "")
        /\ issued' = Extended(issued, n, 2)
        /\ abandoned' = Extended(abandoned, n, {})
        /\ lastBanner' = page.banner
        /\ listing' = IF follow THEN "results" ELSE "none"
        /\ pagesRequested' = IF follow THEN pagesRequested + 1 ELSE pagesRequested
        /\ walker' = IF follow THEN "NextPage"
                     ELSE IF st.outcome = "Completed" THEN "Exhausted" ELSE st.outcome
        /\ pagesHandled' = pagesHandled + 1
        /\ lastRun' = RunRecord(page.tools, Len(page.rows), page.next,
                                st.processed, st.dispatched)
        /\ searchForm' = None
        /\ formdata' = NoFormData
        /\ UNCHANGED <<configVars, arcgis>>

\* A walker that never takes a page for a single application's view.
NeverSingleApplication(page) == FALSE

\* `len(application_tools) > 0`
IsSingleApplication(page) == page.tools

\* The too-many branch without its logger.error call.
LogTooManySilently(log) == log

\* self.logger.error("Too many results found ...")
LogTooMany(log) == [log EXCEPT !["too_many"] = @ + 1]

\* The engine delivers a listing page to parse_results.
ParseResults(page) ==
    /\ listing = "results"
    /\ page.next => pagesRequested < MaxPages
    /\ IF page.banner # "" /\ Contains(page.banner, NoResultsText)
       THEN WalkerStops("NoResults", page.banner) /\ UNCHANGED errorLog
       ELSE IF page.banner # "" /\ Contains(page.banner, TooManyText)
       THEN /\ WalkerStops("AmbiguousTooMany", page.banner)
            /\ errorLog' = LogTooMany(errorLog)
       ELSE IF IsSingleApplication(page)
       THEN SingleApplication(page)
       ELSE IF ~page.container
       THEN WalkerStops("NoContainer", page.banner) /\ UNCHANGED errorLog
       ELSE WalkRows(page)

\* The fetch of the search form or of a listing page fails; these requests
\* have no errback.
ListingFails ==
    /\ listing \in {"start", "results"}
    /\ listing' = "none"
    /\ walker' = "FetchFailed"
    /\ pagesHandled' = IF listing = "results" THEN pagesHandled + 1 ELSE pagesHandled
    /\ searchForm' = None
    /\ formdata' = NoFormData
    /\ UNCHANGED <<configVars, arcgis, applications_scraped, pagesRequested, lastBanner,
                   validReached, lastRun, errorLog, apps, inflight, emitted, failed, first, issued, abandoned>>

\* --------------------------------------------------------- specification
Next ==
    \/ \E token \in Tokens : SubmitForm(token)
    \/ \E page \in Pages : ParseResults(page)
    \/ ListingFails
    \/ \E r \in inflight : ParseDetailsSummaryTab(r)
    \/ \E r \in inflight : ParseDetailsFurtherInformationTab(r)
    \/ \E r \in inflight : HandleError(r)

Spec == Init /\ [][Next]_vars

\* The crawl under the engine's scheduling: while a request is
\* outstanding the engine goes on delivering responses or failures.  The
\* spider scrapes applications, up to a limit of one.
FairInit ==
    /\ limit = 1
    /\ should_scrape_application = TRUE
    /\ applications_scraped = 0
    /\ start_date = Strptime("2024-11-01", DEFAULT_DATE_FORMAT).value
    /\ end_date = DEFAULT_END_DATE
    /\ filter_status = Member("ALL")
    /\ site \in Sites
    /\ dateCells = FilledDateCells
    /\ listing = "start"
    /\ NothingDone

FairSpec == FairInit /\ [][Next]_vars /\ WF_vars(Next)

\* ------------------------------------------------------ geometry handler
\* A member of the geometry response's JSON: absent, null or a value.
Missing == [kind |-> "missing", text |-> ""]
Null == [kind |-> "null", text |-> ""]
Text(t) == [kind |-> "str", text |-> t]

\* A GeoJSON feature: its geometry and properties members are present,
\* either may be null; properties may lack KEYVAL or hold null for it.
Properties == {[isNull |-> TRUE, KEYVAL |-> Missing]}
                  \cup {[isNull |-> FALSE, KEYVAL |-> k] :
                           k \in {Missing, Null, Text("K1"), Text("K2")}}
Features == [geometry : {Null, Text("Polygon")}, properties : Properties]

\* json.loads(response.text): an object without "features" (the service's
\* error answer), with "features": null, or with a list of features.
ArcgisResponses ==
    {[features |-> Missing, list |-> <<>>], [features |-> Null, list |-> <<>>]}
        \cup {[features |-> Text("list"), list |-> l] : l \in SeqsUpTo(Features, MaxFeatures)}

\* The geometry request as _parse_single_result would build it.
ArcgisRequests ==
    [phase : {"requested"}, response : ArcgisResponses, keyval : {"K1", "K2"},
     application_reference : {"24/1234/FUL"},
     raised : {FALSE}, errors : {0}, polygons : {<<>>}]

ArcgisResult(raised, errors, polygons) ==
    [raised |-> raised, errors |-> errors, polygons |-> polygons]

\* A comparison that accepts every KEYVAL.
KeyvalAlwaysMatches(found, wanted) == FALSE

\* `parsed_response["features"][0]["properties"]["KEYVAL"] != response.meta["keyval"]`
KeyvalMismatch(found, wanted) == found # wanted

\* parse_idox_arcgis on a response whose request meta holds keyval and
\* application_reference: subscripting an absent member raises KeyError,
\* each `is None` / empty / mismatch branch logs one error and returns.
parse_idox_arcgis(response, keyval, application_reference) ==
    IF response.features = Missing THEN ArcgisResult(TRUE, 0, <<>>)
    ELSE IF response.features = Null THEN ArcgisResult(FALSE, 1, <<>>)
    ELSE IF Len(response.list) = 0 THEN ArcgisResult(FALSE, 1, <<>>)
    ELSE LET feature == response.list[1]
         IN  IF feature.geometry = Null THEN ArcgisResult(FALSE, 1, <<>>)
             ELSE IF feature.properties.isNull THEN ArcgisResult(FALSE, 1, <<>>)
             ELSE IF feature.properties.KEYVAL = Missing THEN ArcgisResult(TRUE, 0, <<>>)
             ELSE IF feature.properties.KEYVAL = Null THEN ArcgisResult(FALSE, 1, <<>>)
             ELSE IF KeyvalMismatch(feature.properties.KEYVAL.text, keyval)
             THEN ArcgisResult(FALSE, 1, <<>>)
             ELSE ArcgisResult(FALSE, 0,
                               <<[reference |-> application_reference,
                                  polygon_geojson |-> feature]>>)

\* The engine delivers the geometry response to parse_idox_arcgis.
ParseIdoxArcgis ==
    /\ arcgis.phase = "requested"
    /\ LET res == parse_idox_arcgis(arcgis.response, arcgis.keyval,
                                    arcgis.application_reference)
       IN  arcgis' = [arcgis EXCEPT !.phase = "handled", !.raised = res.raised,
                                    !.errors = res.errors, !.polygons = res.polygons]
    /\ UNCHANGED <<configVars, applications_scraped, listing, searchForm, formdata,
                   pagesRequested, walker, lastBanner, validReached, pagesHandled, lastRun,
                   errorLog, apps, inflight, emitted, failed, first, issued, abandoned>>

\* The geometry handler on its own: one geometry request is outstanding
\* and nothing else is.
ArcgisInit ==
    /\ limit = 1
    /\ should_scrape_application = TRUE
    /\ applications_scraped = 0
    /\ start_date = Strptime("2024-11-01", DEFAULT_DATE_FORMAT).value
    /\ end_date = DEFAULT_END_DATE
    /\ filter_status = Member("ALL")
    /\ site = [summaryTab |-> "own", detailsTab |-> "own"]
    /\ dateCells = FilledDateCells
    /\ listing = "none"
    /\ searchForm = None
    /\ formdata = NoFormData
    /\ arcgis \in ArcgisRequests
    /\ pagesRequested = 0
    /\ walker = "AwaitingResults"
    /\ lastBanner = ""
    /\ validReached = 0
    /\ pagesHandled = 0
    /\ lastRun = NoRun
    /\ errorLog = [c \in ErrorSites |-> 0]
    /\ apps = <<>>
    /\ inflight = {}
    /\ emitted = <<>>
    /\ failed = <<>>
    /\ first = <<>>
    /\ issued = <<>>
    /\ abandoned = <<>>

ArcgisNext == ParseIdoxArcgis

SpecArcgis == ArcgisInit /\ [][ArcgisNext]_vars

\* The crawl from construction on, over the arguments the spider may be
\* constructed with, for one site and a limit of one application.
SearchInit ==
    /\ limit = 1
    /\ should_scrape_application = TRUE
    /\ applications_scraped = 0
    /\ start_date \in DateArguments
    /\ end_date \in DateArguments
    /\ filter_status \in StatusArguments
    /\ site = [summaryTab |-> "own", detailsTab |-> "own"]
    /\ dateCells = FilledDateCells
    /\ listing = "new"
    /\ NothingDone

SearchNext ==
    \/ Construct
    \/ StartRequests
    \/ Next

SpecSearch == SearchInit /\ [][SearchNext]_vars

\* The crawl of a site whose #simpleDetailsTable holds any of the date
\* cells, with the summary tab alone or both tabs showing that table, for
\* a limit of one application.
DateSites ==
    {[summaryTab |-> "own", detailsTab |-> "own"],
     [summaryTab |-> "both", detailsTab |-> "both"]}

DateInit ==
    /\ limit = 1
    /\ should_scrape_application = TRUE
    /\ applications_scraped = 0
    /\ start_date = Strptime("2024-11-01", DEFAULT_DATE_FORMAT).value
    /\ end_date = DEFAULT_END_DATE
    /\ filter_status = Member("ALL")
    /\ site \in DateSites
    /\ dateCells \in [application_received : DateCells, application_validated : DateCells]
    /\ listing = "start"
    /\ NothingDone

SpecDates == DateInit /\ [][Next]_vars


\* ================================================================ claims
Min(x, y) == IF x <= y THEN x ELSE y

AppIndices == 1..Len(apps)
\* Applications the row loop dispatched (their meta carries a keyval).
RowApps == {a \in AppIndices : apps[a].keyval # ""}
\* No request of application a is outstanding.
Quiescent(a) == \A r \in inflight : r.app # a
\* Both detail tabs of the site carry their own table.
SiteWellFormed == site.summaryTab # "none" /\ site.detailsTab # "none"

\* C1 -- No duplicates: whatever the interleaving of the summary and
\* further-information handlers of an application (re-requests included),
\* at most one output is ever handed to the sink for it.
C1_NoDuplicates == \A a \in AppIndices : Len(emitted[a]) <= 1

\* An application of the row loop whose handlers have all run, none of its
\* fetches failed, and exactly one output was handed over.
C1_Witness ==
    \E a \in RowApps :
        Quiescent(a) /\ failed[a] = 0 /\ Len(emitted[a]) = 1 /\ site.detailsTab = "both"

\* C2 -- No drops: once every request of a dispatched application has been
\* answered, none of them failed and both tab pages carry their table, an
\* output has been handed to the sink for the application.
C2_NoDrops ==
    \A a \in RowApps :
        (Quiescent(a) /\ failed[a] = 0 /\ SiteWellFormed) => emitted[a] # <<>>

\* C3 -- Order independence: every output built for an application on this
\* site reads its summary fields from a structure parsed from
\* #simpleDetailsTable and its further-information fields from one parsed
\* from #applicationDetails, both of the application's own pages, and the
\* pages they were read from are the same for every application, whichever
\* of its two initial fetches was handled first.
C3_OrderIndependence ==
    \A a \in AppIndices : \A i \in 1..Len(emitted[a]) :
        LET o == emitted[a][i].item
        IN  /\ o.summary_fields.table = SimpleDetailsTable
            /\ o.further_information_fields.table = ApplicationDetails
            /\ o.summary_fields.app = a
            /\ o.further_information_fields.app = a
            /\ \A b \in AppIndices : \A j \in 1..Len(emitted[b]) :
                   LET p == emitted[b][j].item
                   IN  /\ p.summary_fields.url = o.summary_fields.url
                       /\ p.further_information_fields.url = o.further_information_fields.url

\* Two applications with an output each, one whose summary fetch was handled
\* first and one whose further-information fetch was handled first.
C3_Witness ==
    \E a, b \in RowApps :
        /\ first[a] = SummaryCallback /\ emitted[a] # <<>>
        /\ first[b] = FurtherCallback /\ emitted[b] # <<>>

\* C4 -- An output is built only from a meta in which both the summary
\* structure and the further-information structure are stored.
C4_BothStructuresStored ==
    \A a \in AppIndices : \A i \in 1..Len(emitted[a]) :
        /\ emitted[a][i].item.summary_fields # NoStructure
        /\ emitted[a][i].item.further_information_fields # NoStructure

\* An output exists while the application's other chain is still under way.
C4_Witness ==
    \E a \in RowApps : emitted[a] # <<>> /\ ~Quiescent(a)

\* C5 -- With application scraping enabled the number of applications the
\* row loop has dispatched never exceeds the limit and equals
\* min(limit, number of valid-key rows the loop has reached).
C5_DispatchBoundedByLimit ==
    should_scrape_application =>
        /\ applications_scraped <= limit
        /\ applications_scraped = Min(limit, validReached)
        /\ Cardinality(RowApps) = applications_scraped

\* One page of three valid rows with limit 2: two applications dispatched.
C5_Witness ==
    /\ should_scrape_application
    /\ limit = 2 /\ pagesRequested = 1 /\ validReached = 3
    /\ applications_scraped = 2 /\ Cardinality(RowApps) = 2
    /\ walker = "LimitReached"


\* A step of parse_results that requests the next listing page.
NextPageRequested == pagesRequested >= 1 /\ pagesRequested' = pagesRequested + 1

TotalErrors == errorLog["too_many"] + errorLog["keyval"] + errorLog["handle_error"]

\* C7 -- parse_results on a page whose banner says "No results found"
\* issues no detail request and no next-page request, changes no counter,
\* logs no error, and the walker ends in NoResults.
C7_NoResultsStops ==
    [][(listing = "results" /\ lastBanner' = NoResultsText)
           => /\ inflight' = inflight
              /\ apps' = apps
              /\ listing' = "none"
              /\ pagesRequested' = pagesRequested
              /\ applications_scraped' = applications_scraped
              /\ validReached' = validReached
              /\ errorLog' = errorLog
              /\ walker' = "NoResults"]_vars

\* The second listing page carried the banner, after the first page's rows
\* were dispatched.
C7_Witness ==
    /\ walker = "NoResults" /\ lastBanner = NoResultsText
    /\ pagesRequested = 2 /\ applications_scraped >= 1

\* C8 -- parse_results on a page whose banner says "Too many results found"
\* issues no detail request and no next-page request, logs exactly one
\* error and returns normally (the walker ends in AmbiguousTooMany).
C8_TooManyStops ==
    [][(listing = "results" /\ lastBanner' = TooManyText)
           => /\ inflight' = inflight
              /\ apps' = apps
              /\ listing' = "none"
              /\ pagesRequested' = pagesRequested
              /\ applications_scraped' = applications_scraped
              /\ TotalErrors' = TotalErrors + 1
              /\ walker' = "AmbiguousTooMany"]_vars

\* The banner arrived on the second page and one too-many error is logged.
C8_Witness ==
    /\ walker = "AmbiguousTooMany" /\ lastBanner = TooManyText
    /\ errorLog["too_many"] = 1 /\ pagesRequested = 2

\* C9 -- A row without a derivable key is skipped and the walker goes on
\* with the rest of the page: no run of parse_results is ended by an
\* exception raised for a row.
C9_RowFailureIsolated == walker # "Raised"

\* C10 -- A failed fetch of application A is logged by handle_error, and
\* every other application B whose own fetches all succeeded still gets its
\* output once its requests have been answered.
C10_FailureIsolated ==
    \A A, B \in RowApps :
        (A # B /\ failed[A] > 0 /\ failed[B] = 0 /\ Quiescent(B) /\ SiteWellFormed)
            => /\ errorLog["handle_error"] >= 2
               /\ emitted[B] # <<>>

\* C11 -- Dispatch ordering: the rows a parse_results run dispatches are
\* dispatched in document order and their applications are handed over in
\* that order; applications of an earlier listing page precede those of a
\* later one; a step that requests page N+1 has handed every row of page N
\* to _parse_single_result; and at most one listing-page request is
\* outstanding at any time.
C11_DispatchOrdering ==
    [][/\ \A i, j \in 1..Len(lastRun'.dispatched) :
              i < j => lastRun'.dispatched[i] < lastRun'.dispatched[j]
       /\ \A a, b \in 1..Len(apps') :
              a < b /\ apps'[a].keyval # "" /\ apps'[b].keyval # ""
                  => apps'[a].original_response <= apps'[b].original_response
       /\ pagesRequested' - pagesHandled' = (IF listing' = "results" THEN 1 ELSE 0)
       /\ pagesHandled' = pagesHandled + 1 /\ walker' # "FetchFailed" /\ ~lastRun'.tools
              => /\ Len(apps') - Len(apps) = Len(lastRun'.dispatched)
                 /\ \A k \in 1..Len(lastRun'.dispatched) :
                        apps'[Len(apps) + k].original_response = pagesRequested
       /\ NextPageRequested
              => /\ lastRun'.processed = lastRun'.rows
                 /\ pagesHandled' = pagesRequested]_vars

\* The first page's rows 1 and 3 were dispatched around a row with an empty
\* key, and the second page is requested after the loop ran over all three.
C11_Witness ==
    /\ walker = "NextPage" /\ listing = "results" /\ pagesRequested = 2
    /\ lastRun.rows = 3 /\ lastRun.processed = 3
    /\ lastRun.dispatched = <<1, 3>>
    /\ Len(apps) = 2

\* The DD/MM/YYYY text of each date explored.
DayMonthYear(d) ==
    CASE d = Date(2024, 11, 1) -> "01/11/2024"
      [] d = Date(2024, 12, 25) -> "25/12/2024"
      [] d = Date(2025, 1, 9) -> "09/01/2025"
      [] OTHER -> "?"

\* C12 -- The formdata submit_form builds holds a caseStatus entry equal to
\* the filter's display string for every filter other than ALL and no
\* caseStatus entry for ALL; in both cases it holds the _csrf value read
\* from the form page and the two dates as DD/MM/YYYY.
C12_StatusField ==
    [][(listing = "start" /\ listing' = "results")
           => /\ filter_status # Member("ALL")
                     => /\ "caseStatus" \in DOMAIN formdata'
                        /\ formdata'["caseStatus"] = Str(applicationStatus[filter_status.v])
              /\ filter_status = Member("ALL") => "caseStatus" \notin DOMAIN formdata'
              /\ filter_status.kind = "enum"
              /\ formdata'["_csrf"] = searchForm'
              /\ formdata'["date(applicationValidatedStart)"] = Str(DayMonthYear(start_date))
              /\ formdata'["date(applicationValidatedEnd)"] = Str(DayMonthYear(end_date))]_vars

\* The search was posted for status "Decided" (given as text) with the
\* token of the form page.
C12_Witness ==
    /\ listing = "results" /\ pagesHandled = 0
    /\ filter_status = Member("DECIDED")
    /\ searchForm = Str("csrf-2")
    /\ DOMAIN formdata = {"_csrf", "caseAddressType", "date(applicationValidatedStart)",
                          "date(applicationValidatedEnd)", "searchType", "caseStatus"}
    /\ formdata["caseStatus"] = Str("Decided")
    /\ start_date = Date(2024, 11, 1) /\ end_date = Date(2025, 1, 9)

\* Position of a date in the calendar.
Ordinal(d) == d.year * 10000 + d.month * 100 + d.day

\* C13 -- Every constructed crawl has start_date <= end_date: constructing
\* with start_date > end_date ends in a configuration error, no request is
\* ever issued after a configuration error, and the criteria are not
\* changed once construction has run.
C13_DateRange ==
    [][/\ listing' \notin {"new", "config_error"}
              => /\ start_date'.kind = "date" /\ end_date'.kind = "date"
                 /\ Ordinal(start_date') <= Ordinal(end_date')
       /\ (/\ listing = "new"
           /\ start_date.kind = "date" /\ end_date.kind = "date"
           /\ Ordinal(start_date) > Ordinal(end_date))
              => listing' = "config_error"
       /\ listing' = "config_error"
              => /\ pagesRequested' = 0 /\ formdata' = NoFormData
                 /\ inflight' = {} /\ apps' = <<>>
       /\ listing # "new"
              => /\ start_date' = start_date /\ end_date' = end_date
                 /\ filter_status' = filter_status]_vars

\* Construction was refused for the date range alone: both dates and the
\* status were converted, and start_date is after end_date.
C13_Witness ==
    /\ listing = "config_error"
    /\ start_date.kind = "date" /\ end_date.kind = "date"
    /\ filter_status.kind = "enum"
    /\ Ordinal(start_date) > Ordinal(end_date)
    /\ pagesRequested = 0

\* The first feature of the handled geometry response names a key.
FirstKeyval ==
    IF /\ arcgis.response.features = Text("list")
       /\ Len(arcgis.response.list) > 0
       /\ ~arcgis.response.list[1].properties.isNull
       /\ arcgis.response.list[1].properties.KEYVAL.kind = "str"
    THEN arcgis.response.list[1].properties.KEYVAL.text
    ELSE ""

\* C14 -- A geometry response whose KEYVAL differs from the request's key
\* yields no polygon record and exactly one logged error; a polygon record
\* is yielded only for a response with a feature whose geometry and
\* properties are not null and whose KEYVAL equals the request's key, and
\* then it is the one record built from that feature.
C14_KeyvalMismatch ==
    arcgis.phase = "handled" =>
        /\ (FirstKeyval # "" /\ FirstKeyval # arcgis.keyval)
               => /\ arcgis.polygons = <<>>
                  /\ arcgis.errors = 1
                  /\ ~arcgis.raised
        /\ arcgis.polygons # <<>>
               => /\ FirstKeyval = arcgis.keyval
                  /\ arcgis.response.list[1].geometry # Null
                  /\ Len(arcgis.polygons) = 1
                  /\ arcgis.polygons[1].polygon_geojson = arcgis.response.list[1]
                  /\ arcgis.polygons[1].reference = arcgis.application_reference
                  /\ arcgis.errors = 0

\* A response with geometry and properties whose KEYVAL is another
\* application's key has been handled.
C14_Witness ==
    /\ arcgis.phase = "handled"
    /\ arcgis.keyval = "K1" /\ FirstKeyval = "K2"
    /\ arcgis.response.list[1].geometry = Text("Polygon")
    /\ arcgis.errors = 1 /\ arcgis.polygons = <<>>

\* C15 -- A request issued by a detail handler that found its counterpart
\* structure absent targets the other detail page (the tab of the handler
\* named as its callback) and its meta holds the structure of the handler
\* that issued it.
C15_ReRequestTargetsCounterpart ==
    \A r \in inflight :
        (r.app \in RowApps /\ ~IsInitial(r))
            => /\ r.url = TabOf(r.callback)
               /\ r.callback = FurtherCallback => r.meta.details_summary # NoStructure
               /\ r.callback = SummaryCallback
                      => r.meta.details_further_information # NoStructure

\* C16 -- For every dispatched application, whatever the order in which
\* its responses are handled, at most three detail requests are issued
\* (the two initial fetches and at most one more), at most one merge is
\* performed, and exactly one once all its requests have been answered
\* without a failed fetch on a site whose tabs carry their tables.
C16_OneMergeThreeRequests ==
    \A a \in RowApps :
        /\ issued[a] <= 3
        /\ Len(emitted[a]) <= 1
        /\ (Quiescent(a) /\ failed[a] = 0 /\ SiteWellFormed) => Len(emitted[a]) = 1

\* C20 -- No automatic retry: once the fetch of one of an application's
\* two tabs has failed, no step issues a request for that application
\* whose callback is that tab's handler.
C20_NoRetry ==
    [][\A r \in inflight' \ inflight :
           r.app \in DOMAIN abandoned => r.callback \notin abandoned[r.app]]_vars

\* C17 -- parse_results on a page with no terminal banner that carries
\* #applicationTools hands the page to parse_details_summary_tab as one
\* application and stops pagination: no row is processed or dispatched, no
\* counter changes, no next-page request is issued, and the only request
\* that may follow is the summary handler's own for that application.
C17_SingleApplication ==
    [][(/\ pagesHandled' = pagesHandled + 1 /\ walker' # "FetchFailed"
        /\ lastBanner' \notin {NoResultsText, TooManyText}
        /\ lastRun'.tools)
           => /\ walker' = "SingleApplication"
              /\ listing' = "none"
              /\ pagesRequested' = pagesRequested
              /\ applications_scraped' = applications_scraped
              /\ validReached' = validReached
              /\ errorLog' = errorLog
              /\ lastRun'.processed = 0 /\ lastRun'.dispatched = <<>>
              /\ Len(apps') = Len(apps) + 1
              /\ apps'[Len(apps')].keyval = ""
              /\ first'[Len(apps')] = SummaryCallback
              /\ \A r \in inflight' \ inflight :
                     /\ r.app = Len(apps')
                     /\ r.callback = FurtherCallback
                     /\ r.meta.details_summary.app = r.app
                     /\ r.meta.details_summary.url = r.url
                     /\ r.meta.details_summary.table = SimpleDetailsTable
              /\ Cardinality(inflight' \ inflight)
                     = (IF HasSimpleDetailsTable(SummaryUrl) THEN 1 ELSE 0)]_vars

\* A page with #applicationTools that also held a result row and a next
\* link was handled as a single application: one application, no row
\* dispatched, no second page requested, the summary handler's request in
\* flight.
C17_Witness ==
    /\ walker = "SingleApplication" /\ listing = "none"
    /\ lastRun = RunRecord(TRUE, 1, TRUE, 0, <<>>)
    /\ pagesRequested = 1 /\ pagesHandled = 1
    /\ Len(apps) = 1 /\ apps[1].keyval = ""
    /\ \E r \in inflight : r.app = 1 /\ r.callback = FurtherCallback

\* C18 -- The scrape counter changes only in a parse_results step, by one
\* for each row dispatched in it, and each dispatched row's meta holds the
\* limit and the count right after its own increment, with its two
\* fetches issued; the limit never changes; no step of a detail handler,
\* of the record builder or of handle_error changes the counter or the
\* entries of an application's meta.
C18_CounterFrame ==
    [][/\ limit' = limit
       /\ applications_scraped' # applications_scraped
              => /\ pagesHandled' = pagesHandled + 1
                 /\ applications_scraped' - applications_scraped = Len(apps') - Len(apps)
                 /\ \A k \in 1..(Len(apps') - Len(apps)) :
                        /\ apps'[Len(apps) + k].applications_scraped = applications_scraped + k
                        /\ apps'[Len(apps) + k].limit = limit
                        /\ issued'[Len(apps) + k] = 2
       /\ pagesHandled' = pagesHandled /\ inflight' # inflight
              => applications_scraped' = applications_scraped /\ apps' = apps
       /\ \A a \in 1..Len(apps) : apps'[a] = apps[a]]_vars

\* Two rows were dispatched by one run with snapshots 1 and 2, and after
\* handlers and an errback have run the counter still reads 2.
C18_Witness ==
    /\ applications_scraped = 2 /\ Len(apps) = 2
    /\ apps[1].applications_scraped = 1 /\ apps[2].applications_scraped = 2
    /\ failed[1] > 0 /\ emitted[2] # <<>>
    /\ inflight = {}

\* C19 -- Contexts do not interfere: under every interleaving, a structure
\* held in the meta of a request of application A was parsed from a
\* response to a request of A, and so were both structures of every
\* output handed over for A.
C19_ContextsIsolated ==
    /\ \A r \in inflight :
           /\ r.meta.details_summary # NoStructure => r.meta.details_summary.app = r.app
           /\ r.meta.details_further_information # NoStructure
                  => r.meta.details_further_information.app = r.app
    /\ \A a \in AppIndices : \A i \in 1..Len(emitted[a]) :
           /\ emitted[a][i].item.summary_fields.app = a
           /\ emitted[a][i].item.further_information_fields.app = a

\* Two applications under way at once: a follow-up request of one is in
\* flight with its structure stored while the other, whose initial fetches
\* were handled in the other order, has handed over its output.
C19_Witness ==
    \E a, b \in RowApps :
        /\ a # b
        /\ \E r \in inflight : r.app = a /\ ~IsInitial(r)
        /\ emitted[b] # <<>>
        /\ first[a] # "" /\ first[b] # "" /\ first[a] # first[b]

\* What the two date rows of a summary page must give: nothing for a cell
\* that is missing, empty or blank, the calendar date for the two cells in
\* the pages' format, a failure for any other cell.
EmptyCell(cell) == cell.words = <<>>
DateOf(cell) ==
    IF cell.words = <<"Mon", "01", "Jan", "2024">> THEN DateTime(2024, 1, 1)
    ELSE IF cell.words = <<"Wed", "25", "Dec", "2024">> THEN DateTime(2024, 12, 25)
    ELSE Absent
Malformed(cell) == ~EmptyCell(cell) /\ DateOf(cell) = Absent

\* The structure holds what the page's two date cells must give.
DatesAsOnPage(details_summary) ==
    /\ details_summary.application_received = DateOf(dateCells.application_received)
    /\ details_summary.application_validated = DateOf(dateCells.application_validated)

\* What a step handed to the sink for application a.
NewOutputs(a) == Len(emitted[a]) + 1 .. Len(emitted'[a])

\* C21 -- Date cells of the summary page: when the summary handler runs on
\* a page with the table and neither date cell is malformed, it continues
\* normally -- it issues the re-request whose context holds the summary
\* structure, or it merges and hands over a record -- and an empty or
\* missing cell gives an absent date there; when a non-empty cell does not
\* match the format, the handler fails: no request is issued and nothing
\* is handed over for that response.
C21_DateCells ==
    [][\A r \in inflight :
          (ParseDetailsSummaryTab(r) /\ HasSimpleDetailsTable(r.url))
              => IF Malformed(dateCells.application_received)
                        \/ Malformed(dateCells.application_validated)
                 THEN inflight' = inflight \ {r} /\ emitted' = emitted
                 ELSE \/ \E q \in inflight' \ inflight :
                            /\ q.callback = FurtherCallback
                            /\ DatesAsOnPage(q.meta.details_summary)
                      \/ \E i \in NewOutputs(r.app) :
                            DatesAsOnPage(emitted'[r.app][i].item.summary_fields)]_vars

\* The date rows alone: the same statement, except that on the branch
\* where the context already holds the further-information structure the
\* handler's merge call is not required to succeed.
C21_DatesUpToMerge ==
    [][\A r \in inflight :
          (ParseDetailsSummaryTab(r) /\ HasSimpleDetailsTable(r.url))
              => IF Malformed(dateCells.application_received)
                        \/ Malformed(dateCells.application_validated)
                 THEN inflight' = inflight \ {r} /\ emitted' = emitted
                 ELSE \/ r.meta.details_further_information # NoStructure
                      \/ \E q \in inflight' \ inflight :
                            /\ q.callback = FurtherCallback
                            /\ DatesAsOnPage(q.meta.details_summary)]_vars

\* Records handed over carry the dates of the page, never a substitute.
C21_NoSubstitutedDate ==
    \A a \in AppIndices : \A i \in 1..Len(emitted[a]) :
        DatesAsOnPage(emitted[a][i].item.summary_fields)

\* The summary handler's re-request went out from a page with an empty
\* date cell, and a summary response with a malformed cell was dropped.
C21_EmptyCellWitness ==
    /\ EmptyCell(dateCells.application_received)
    /\ \E r \in inflight :
           r.callback = FurtherCallback /\ r.meta.details_summary # NoStructure
C21_MalformedWitness ==
    /\ Malformed(dateCells.application_validated)
    /\ ~Malformed(dateCells.application_received)
    /\ \E a \in AppIndices : first[a] = SummaryCallback /\ issued[a] = 2

\* No request is outstanding: neither a listing request nor a detail one.
NoOutstandingRequests == listing = "none" /\ inflight = {}

\* C22 -- Termination: over a chain of at most MaxPages listing pages of
\* at most MaxRows rows, under fair delivery of responses or failures,
\* the crawl reaches a state with no outstanding request and stays there;
\* the re-requests between the two detail handlers do not go on: a
\* request carries at most one stored structure (it is an initial request
\* or the re-request of an initial one), and no application is ever
\* handed more than four detail requests.
C22_Termination ==
    /\ [](\A r \in inflight :
              \/ r.meta.details_summary = NoStructure
              \/ r.meta.details_further_information = NoStructure)
    /\ [](\A a \in AppIndices : issued[a] <= 4)
    /\ <>[]NoOutstandingRequests

\* The crawl has ended after two listing pages, and both handlers of an
\* application re-requested before its chains ended.
C22_Witness ==
    /\ NoOutstandingRequests
    /\ pagesHandled = MaxPages
    /\ \E a \in AppIndices : issued[a] = 4 /\ failed[a] = 0
====
